---- MODULE Spec2Model ----
(***************************************************************************)
(* A model of ausocean/h264decode: the two io.Reader-backed bit readers    *)
(* of package bits (the bufio-backed reader with a 64-bit accumulator and  *)
(* the cache-backed reader), and the Annex-B NAL reader of package h264    *)
(* (H264Reader.readNalUnit and the dispatch loop H264Reader.Start),        *)
(* readUe, and the cursor-based BitReader of h264/bits/bitreader.go.       *)
(*                                                                         *)
(* A uint64 is a tuple of 64 bits, index 1 the most significant one, so    *)
(* that shifts lose the bits a 64-bit register loses.                      *)
(***************************************************************************)
EXTENDS Integers, Sequences, FiniteSets, TLC

VARIABLES
    src,      \* the bytes the io.Reader source was initialised with
    partial,  \* TRUE when the source may deliver fewer bytes than asked for
    br,       \* bufio-backed BitReader: r (bytes taken from the bufio.Reader), n, bits
    cb,       \* cache-backed BitReader: r (bytes taken from the source), c, bits, tmp
    log,      \* the calls made so far on the bit reader, with their results
    fault,    \* "none", or the run-time panic that ended the program
    stream,   \* the bytes of H264Reader.Stream
    hr,       \* the H264Reader: its embedded BitReader, NalUnits, VideoStreams
    ret,      \* what the last readNalUnit call returned: "none" yet, "nil", "unit"
    disp,     \* the NAL unit Start dispatched last: its Type, and whether a
              \* VideoStream existed when it arrived
    ur,       \* the bit position of the bitio.Reader readUe reads from src
    cur       \* the cursor-based BitReader of h264/bits/bitreader.go

bitVars == <<src, partial, br, cb, log>>
nalVars == <<stream, hr, ret, disp>>
auxVars == <<ur, cur>>
vars == <<src, partial, br, cb, log, fault, stream, hr, ret, disp, ur, cur>>

----------------------------------------------------------------------------
(* Bounds of the model. *)

\* longest source, in bytes (9 bytes let a 64-bit read start mid-byte)
MaxSrcLen == 9
\* most ReadBits/PeekBits calls made on one reader
MaxCalls == 3

\* the two-byte patterns sources repeat: the tests' 0x8F 0xE3 and 0xFF 0xFF
Patterns == {<<143, 227>>, <<255, 255>>}
\* the widths asked of ReadBits and PeekBits
Widths == {0, 2, 4, 8, 16, 64}

\* A source: the bytes p[1], p[2], p[1], p[2], ... up to a length.
Pattern(p, len) == [i \in 1..len |-> IF i % 2 = 1 THEN p[1] ELSE p[2]]
Sources == {Pattern(p, len) : p \in Patterns, len \in 0..MaxSrcLen}

----------------------------------------------------------------------------
(* uint64 arithmetic. *)

WordBits == 64
Pow2(k) == 2 ^ k
Zero64 == [i \in 1..WordBits |-> 0]
\* x << k and x >> k on a uint64: the bits shifted out are lost
Shl(x, k) == [i \in 1..WordBits |-> IF i + k <= WordBits THEN x[i + k] ELSE 0]
Shr(x, k) == [i \in 1..WordBits |-> IF i - k >= 1 THEN x[i - k] ELSE 0]
BitOr(x, y) == [i \in 1..WordBits |-> IF x[i] = 1 \/ y[i] = 1 THEN 1 ELSE 0]
BitAnd(x, y) == [i \in 1..WordBits |-> IF x[i] = 1 /\ y[i] = 1 THEN 1 ELSE 0]
\* uint64(b) for a value b below 2^31
FromInt(b) == [i \in 1..WordBits |->
                 IF WordBits - i <= 30 THEN (b \div Pow2(WordBits - i)) % 2 ELSE 0]
\* (1 << n) - 1 as a uint64: 1 << 64 is 0, so n = 64 gives all ones
LowMask(n) == [i \in 1..WordBits |-> IF i > WordBits - n THEN 1 ELSE 0]
\* Go's integer division truncates toward zero
TruncDiv(x, d) == IF x >= 0 THEN x \div d ELSE -((-x) \div d)

----------------------------------------------------------------------------
(* What a bit reader should return: the n bits of B after the first pos.   *)

SrcBit(B, j) == (B[((j - 1) \div 8) + 1] \div Pow2(7 - ((j - 1) % 8))) % 2
Field(B, pos, n) ==
    [i \in 1..WordBits |->
        IF i > WordBits - n THEN SrcBit(B, pos + (i - (WordBits - n))) ELSE 0]

\* The cursor before call k of a log: the widths of the successful reads before it.
RECURSIVE CursorBefore(_, _)
CursorBefore(l, k) ==
    IF k <= 1 THEN 0
    ELSE CursorBefore(l, k - 1)
         + (IF l[k - 1].op = "read" /\ l[k - 1].err = "nil" THEN l[k - 1].n ELSE 0)

----------------------------------------------------------------------------
(* The bufio-backed BitReader. *)

NewBufioBitReader == [r |-> 0, n |-> Zero64, bits |-> 0]

\* The fill loop of ReadBits: one ReadByte per round while n > br.bits.
RECURSIVE BufioFill(_, _, _)
BufioFill(B, b, n) ==
    IF n > b.bits
    THEN IF b.r >= Len(B)
         THEN [br |-> b, err |-> "ErrUnexpectedEOF"]
         ELSE BufioFill(B, [r |-> b.r + 1,
                            n |-> BitOr(Shl(b.n, 8), FromInt(B[b.r + 1])),
                            bits |-> b.bits + 8], n)
    ELSE [br |-> b, err |-> "nil"]

BufioReadBits(B, b, n) ==
    LET f == BufioFill(B, b, n) IN
    IF f.err # "nil"
    THEN [br |-> f.br, val |-> Zero64, err |-> f.err]
    ELSE [br |-> [f.br EXCEPT !.bits = f.br.bits - n],
          val |-> BitAnd(Shr(f.br.n, f.br.bits - n), LowMask(n)),
          err |-> "nil"]

\* The loop of PeekBits over the peeked bytes byt[i]; bits is the local copy.
RECURSIVE PeekFill(_, _, _, _, _)
PeekFill(B, b, bits, i, n) ==
    IF n > bits
    THEN PeekFill(B, [b EXCEPT !.n = BitOr(Shl(b.n, 8), FromInt(B[b.r + i + 1]))],
                  bits + 8, i + 1, n)
    ELSE [br |-> b, bits |-> bits]

BufioPeekBits(B, b, n) ==
    LET k == TruncDiv((n - b.bits) + 7, 8) IN
    IF k < 0
    THEN [br |-> b, val |-> Zero64, err |-> "ErrNegativeCount"]
    ELSE IF Len(B) - b.r < k
    THEN [br |-> b, val |-> Zero64, err |-> "ErrUnexpectedEOF"]
    ELSE LET f == PeekFill(B, b, b.bits, 0, n) IN
         [br |-> f.br,
          val |-> BitAnd(Shr(f.br.n, f.bits - n), LowMask(n)),
          err |-> "nil"]

----------------------------------------------------------------------------
(* The cache-backed BitReader. *)

maxBits == 64
NewCacheBitReader == [r |-> 0, c |-> <<>>, bits |-> 8, tmp |-> [i \in 1..8 |-> 0]]

\* l of resizeCache, 8*(uint(len(c))-1) + b.bits, before the uint wrap-around: with
\* an empty cache the first term wraps to 2^64 - 8 and l is bits - 8 modulo 2^64,
\* which is 0 for bits = 8 and otherwise above every n (a negative value here).
CacheLen(b) == 8 * (Len(b.c) - 1) + b.bits

\* the bytes resizeCache asks the source for: math.Ceil(float64(n-l) / 8.0) if n > l
NeedBytes(b, n) ==
    LET l == CacheLen(b) IN
    IF l >= 0 /\ n > l THEN (n - l + 7) \div 8 ELSE 0

\* What one Read(p) of the source may deliver for len(p) = want: 0 bytes with io.EOF
\* at the end of the data, otherwise at least one byte with a nil error (0 also
\* when resizeCache makes no Read at all, want = 0).
Deliveries(B, r, want, part) ==
    IF want = 0 \/ r >= Len(B) THEN {0}
    ELSE LET most == IF want <= Len(B) - r THEN want ELSE Len(B) - r IN
         IF part THEN 1..most ELSE {most}

\* resizeCache: one Read into tmp[:nbytes], then the whole of tmp joins the cache.
resizeCache(B, b, n, got) ==
    LET nbytes == NeedBytes(b, n) IN
    IF nbytes = 0 THEN [cb |-> b, err |-> "nil"]
    ELSE IF got = 0 THEN [cb |-> b, err |-> "EOF"]
    ELSE LET tmp == [i \in 1..8 |-> IF i <= got THEN B[b.r + i] ELSE b.tmp[i]] IN
         [cb |-> [r |-> b.r + got,
                  c |-> b.c \o [i \in 1..nbytes |-> tmp[i]],
                  bits |-> b.bits,
                  tmp |-> tmp],
          err |-> "nil"]

appendBits(res, rshift, mshift, bshift, from) ==
    BitOr(Shl(res, rshift), FromInt((from \div Pow2(bshift)) % Pow2(8 - mshift)))

\* The loop of readBits. c is the cache, i the index PeekBits advances, del is TRUE
\* when advance() deletes the first byte of the cache (ReadBits).
RECURSIVE readBitsLoop(_, _, _, _, _, _)
readBitsLoop(c, bits, i, n, res, del) ==
    IF i >= Len(c)
    THEN [c |-> c, bits |-> bits, val |-> Zero64, err |-> "panic"]
    ELSE IF n > bits
    THEN readBitsLoop(IF del THEN Tail(c) ELSE c, 8, IF del THEN i ELSE i + 1,
                      n - bits, appendBits(res, bits, 8 - bits, 0, c[i + 1]), del)
    ELSE LET out == appendBits(res, n, 8 - bits, bits - n, c[i + 1]) IN
         IF n = bits
         THEN [c |-> IF del THEN Tail(c) ELSE c, bits |-> 8, val |-> out, err |-> "nil"]
         ELSE [c |-> c, bits |-> bits - n, val |-> out, err |-> "nil"]

readBits(B, b, n, got, del) ==
    IF n > maxBits THEN [cb |-> b, val |-> Zero64, err |-> "errMaxBits"]
    ELSE LET rs == resizeCache(B, b, n, got) IN
         IF rs.err # "nil" THEN [cb |-> rs.cb, val |-> Zero64, err |-> rs.err]
         ELSE LET l == readBitsLoop(rs.cb.c, rs.cb.bits, 0, n, Zero64, del) IN
              IF l.err # "nil" THEN [cb |-> rs.cb, val |-> Zero64, err |-> l.err]
              ELSE IF del
              THEN [cb |-> [rs.cb EXCEPT !.c = l.c, !.bits = l.bits],
                    val |-> l.val, err |-> "nil"]
              ELSE [cb |-> rs.cb, val |-> l.val, err |-> "nil"]

CacheReadBits(B, b, n, got) == readBits(B, b, n, got, TRUE)
CachePeekBits(B, b, n, got) == readBits(B, b, n, got, FALSE)

----------------------------------------------------------------------------
(* The Annex-B NAL reader of package h264: H264Reader.                    *)

InitialNALU == <<0, 0, 0, 1>>
NALU_TYPE_SLICE_NON_IDR_PICTURE == 1
NALU_TYPE_SLICE_IDR_PICTURE == 5
NALU_TYPE_SPS == 7
NALU_TYPE_PPS == 8

\* cap(h.bytes) after an append that needs room for `need` bytes: the Go runtime
\* gives a byte slice grown from empty 8 bytes, then doubles it.
RECURSIVE GrowCap(_, _)
GrowCap(cap, need) ==
    IF cap >= need THEN cap ELSE GrowCap(IF cap = 0 THEN 8 ELSE 2 * cap, need)

\* pos: the bytes taken from Stream.  starts: the offsets readNalUnit took as the
\* start of a NAL unit (its startOffset).  oks: for each NAL unit Start has
\* dispatched, whether its parser (if it has one) returned without error.
\* client: the calls of BufferToReader and Discard made from outside readNalUnit,
\* and err: what the last of them returned.
NewH264Reader ==
    [pos |-> 0, bytes |-> <<>>, cap |-> 0, byteOffset |-> 0,
     NalUnits |-> <<>>, VideoStreams |-> <<>>, starts |-> {}, oks |-> <<>>,
     client |-> 0, err |-> "nil"]

\* BitReader.StreamPosition: its second result is the byte offset.
StreamPosition(h) == h.byteOffset

\* One Stream.Read into a buffer of cntBytes zero bytes, appended whole to h.bytes.
BufferToReader(S, h, cntBytes) ==
    IF h.pos >= Len(S)
    THEN [h |-> h, err |-> "EOF"]
    ELSE LET got == IF cntBytes <= Len(S) - h.pos THEN cntBytes ELSE Len(S) - h.pos
             buf == [i \in 1..cntBytes |-> IF i <= got THEN S[h.pos + i] ELSE 0]
         IN [h |-> [h EXCEPT !.pos = h.pos + got,
                             !.bytes = h.bytes \o buf,
                             !.cap = GrowCap(h.cap, Len(h.bytes) + cntBytes),
                             !.byteOffset = h.byteOffset + cntBytes],
             err |-> "nil"]

\* One Stream.Read into a buffer of cntBytes bytes that is thrown away: h.bytes
\* keeps its length, byteOffset moves on by cntBytes.
Discard(S, h, cntBytes) ==
    IF h.pos >= Len(S)
    THEN [h |-> h, err |-> "EOF"]
    ELSE LET got == IF cntBytes <= Len(S) - h.pos THEN cntBytes ELSE Len(S) - h.pos
         IN [h |-> [h EXCEPT !.pos = h.pos + got,
                             !.byteOffset = h.byteOffset + cntBytes],
             err |-> "nil"]

isStartSequence(packet) ==
    IF Len(packet) < Len(InitialNALU) THEN FALSE
    ELSE \A i \in 1..Len(InitialNALU) : packet[Len(packet) - 4 + i] = InitialNALU[i]

\* The first loop of readNalUnit: read to the start of a NAL unit.
RECURSIVE SeekNalStart(_, _)
SeekNalStart(S, h) ==
    IF isStartSequence(h.bytes) THEN [h |-> h, err |-> "nil"]
    ELSE LET b == BufferToReader(S, h, 1) IN
         IF b.err # "nil" THEN b ELSE SeekNalStart(S, b.h)

\* The second loop of readNalUnit: read to the start of the next NAL unit.
RECURSIVE SeekNextNal(_, _, _, _)
SeekNextNal(S, h, so, startOffset) ==
    IF so = startOffset \/ ~isStartSequence(h.bytes)
    THEN LET b == BufferToReader(S, h, 1) IN
         IF b.err # "nil" THEN b ELSE SeekNextNal(S, b.h, StreamPosition(h), startOffset)
    ELSE [h |-> h, err |-> "nil"]

\* NewNalUnit: nal_unit_type is the low five bits of the first byte.
NalUnitType(frame) == IF Len(frame) = 0 THEN 0 ELSE frame[1] % 32

\* readNalUnit.  ret is "nil" when no NAL unit is returned, "unit" when the one
\* appended last to NalUnits is, "panic" when Bytes()[startOffset:] is out of
\* range (startOffset beyond len(bytes), nothing appended) or when Bytes()[0:8]
\* of the appended unit is (fewer than 8 bytes of capacity after startOffset).
readNalUnit(S, h0) ==
    LET a == SeekNalStart(S, h0) IN
    IF a.err # "nil" THEN [h |-> a.h, ret |-> "nil"]
    ELSE LET startOffset == StreamPosition(a.h)
             h1 == [a.h EXCEPT !.starts = a.h.starts \cup {startOffset}]
             e == SeekNextNal(S, h1, startOffset, startOffset)
         IN IF e.err # "nil" THEN [h |-> e.h, ret |-> "nil"]
            ELSE IF startOffset > Len(e.h.bytes) THEN [h |-> e.h, ret |-> "panic"]
            ELSE LET unit == SubSeq(e.h.bytes, startOffset + 1, Len(e.h.bytes))
                     h2 == [e.h EXCEPT !.NalUnits = Append(e.h.NalUnits, unit)]
                 IN IF e.h.cap - startOffset < 8
                    THEN [h |-> h2, ret |-> "panic"]
                    ELSE [h |-> h2, ret |-> "unit"]

----------------------------------------------------------------------------
(* readUe of package h264, on a bitio.Reader over the bytes B.  The reader *)
(* is at bit position pos; ReadBits(n) returns the next n bits, or io.EOF  *)
(* when the source ends before them.                                       *)

BitioReadBits(B, pos, n) ==
    IF pos + n > 8 * Len(B)
    THEN [pos |-> 8 * Len(B), val |-> Zero64, err |-> "EOF"]
    ELSE [pos |-> pos + n, val |-> Field(B, pos, n), err |-> "nil"]

\* x + y on uint64.  The carry into bit i: a lower bit where both x and y are 1,
\* with x or y 1 in every bit between.  The carry out of bit 1 is lost.
CarryInto(x, y, i) ==
    IF \E j \in (i + 1)..WordBits :
          /\ x[j] + y[j] = 2
          /\ \A k \in (i + 1)..(j - 1) : x[k] + y[k] >= 1
    THEN 1 ELSE 0
Add64(x, y) == [i \in 1..WordBits |-> (x[i] + y[i] + CarryInto(x, y, i)) % 2]

\* The loop of readUe: one bit is read, nZeros is incremented, and the loop goes
\* on while the bit was 0.
RECURSIVE UeZeros(_, _, _)
UeZeros(B, pos, nZeros) ==
    LET r == BitioReadBits(B, pos, 1) IN
    IF r.err # "nil" THEN [pos |-> r.pos, nZeros |-> nZeros, err |-> r.err]
    ELSE IF r.val = Zero64 THEN UeZeros(B, r.pos, nZeros + 1)
    ELSE [pos |-> r.pos, nZeros |-> nZeros + 1, err |-> "nil"]

\* The values of byte: byte(nZeros) is nZeros modulo this.
ByteValues == 256

\* uint(f) of a float64 f of 2^64 or more: the result of the conversion depends
\* on the implementation; 0, 2^63 and 2^64 - 1 are what the builds give.
OutOfRangeUint ==
    {Zero64, [i \in 1..WordBits |-> IF i = 1 THEN 1 ELSE 0], LowMask(WordBits)}

\* readUe with nZeros starting at first.  2^nZeros - 1 + rem is computed in
\* float64: exactly below 2^53, and out of the range of uint (over) from
\* nZeros = 64 on; the inputs keep nZeros out of 53..63.
readUeFrom(B, pos, first) ==
    LET z == UeZeros(B, pos, first) IN
    IF z.err # "nil" THEN [pos |-> z.pos, val |-> Zero64, over |-> FALSE, err |-> z.err]
    ELSE LET rem == BitioReadBits(B, z.pos, z.nZeros % ByteValues) IN
         IF rem.err # "nil"
         THEN [pos |-> rem.pos, val |-> Zero64, over |-> FALSE, err |-> rem.err]
         ELSE IF z.nZeros >= WordBits
         THEN [pos |-> rem.pos, val |-> Zero64, over |-> TRUE, err |-> "nil"]
         ELSE [pos |-> rem.pos, val |-> Add64(LowMask(z.nZeros), rem.val),
               over |-> FALSE, err |-> "nil"]

\* readUe as it would be with nZeros starting at 0 instead of -1
readUeCountsFirstBit(B, pos) == readUeFrom(B, pos, 0)

readUe(B, pos) == readUeFrom(B, pos, -1)

----------------------------------------------------------------------------
(* The cursor-based BitReader of h264/bits/bitreader.go: a byte slice and  *)
(* three int fields.  buf and cnt are the locals of MoreRBSPData, pc tells *)
(* whether a MoreRBSPData call is inside its loop.                         *)

CursorOver(bytes) ==
    [bytes |-> bytes, byteOffset |-> 0, bitOffset |-> 0, bitsRead |-> 0,
     pc |-> "idle", buf |-> 0, cnt |-> 0]

\* Go's remainder has the sign of the dividend
TruncRem(x, d) == x - d * TruncDiv(x, d)

setOffset(b) ==
    [b EXCEPT !.byteOffset = TruncDiv(b.bitsRead, 8),
              !.bitOffset = TruncRem(b.bitsRead, 8)]

Fastforward(b, bits) ==
    [b |-> setOffset([b EXCEPT !.bitsRead = b.bitsRead + bits]),
     val |-> 0, err |-> "nil"]

RewindBytes(b, n) ==
    IF b.byteOffset - n < 0
    THEN [b |-> b, val |-> 0, err |-> "attempted to seek below 0"]
    ELSE [b |-> setOffset([b EXCEPT !.byteOffset = b.byteOffset - n,
                                    !.bitsRead = b.bitsRead - n * 8]),
          val |-> 0, err |-> "nil"]

RewindBits(b, n) ==
    IF n > 8
    THEN LET r == RewindBytes(b, TruncDiv(n, 8)) IN
         IF r.err # "nil" THEN r
         ELSE [b |-> setOffset([r.b EXCEPT !.bitsRead = r.b.bitsRead - n]),
               val |-> 0, err |-> "nil"]
    ELSE [b |-> setOffset([b EXCEPT !.bitsRead = b.bitsRead - n]),
          val |-> 0, err |-> "nil"]

\* b.bytes[b.byteOffset:b.byteOffset+n]; a negative byteOffset is a run-time panic
PeekBytes(b, n) ==
    IF Len(b.bytes) >= b.byteOffset + n
    THEN IF b.byteOffset < 0 THEN [b |-> b, val |-> <<>>, err |-> "panic"]
         ELSE [b |-> b, val |-> SubSeq(b.bytes, b.byteOffset + 1, b.byteOffset + n),
               err |-> "nil"]
    ELSE [b |-> b, val |-> <<>>, err |-> "EOF"]

ReadByte(b) ==
    IF Len(b.bytes) > b.byteOffset
    THEN IF b.byteOffset < 0 THEN [b |-> b, val |-> 0, err |-> "panic"]
         ELSE [b |-> [b EXCEPT !.byteOffset = b.byteOffset + 1],
               val |-> b.bytes[b.byteOffset + 1], err |-> "nil"]
    ELSE [b |-> b, val |-> 0, err |-> "EOF"]

RECURSIVE ReadBytesLoop(_, _, _, _)
ReadBytesLoop(b, n, i, buf) ==
    IF i >= n THEN [b |-> b, val |-> buf, err |-> "nil"]
    ELSE LET r == ReadByte(b) IN
         IF r.err = "nil" THEN ReadBytesLoop(r.b, n, i + 1, Append(buf, r.val))
         ELSE [b |-> r.b, val |-> buf, err |-> r.err]
ReadBytes(b, n) == ReadBytesLoop(b, n, 0, <<>>)

HasMoreData(b) == [b |-> b, val |-> Len(b.bytes) - b.byteOffset > 0, err |-> "nil"]
IsByteAligned(b) == [b |-> b, val |-> b.bitOffset = 0, err |-> "nil"]

\* BitReader.Read: nothing is read, buf is left as it is, and no error is returned
Read(b) == [b |-> b, n |-> 0, err |-> "nil"]

----------------------------------------------------------------------------
(* Annex-B inputs: up to MaxUnits NAL units, each a start code of three or *)
(* four bytes and a payload, after optional leading zero bytes and before  *)
(* an optional closing start code.                                         *)

MaxUnits == 3

StartCodes == {<<0, 0, 0, 1>>, <<0, 0, 1>>}
\* an SPS, a PPS, an IDR slice, a non-IDR slice, and a one-byte delimiter
Payloads == {<<103, 66, 0, 10>>, <<104, 206, 56, 128>>, <<101, 136, 132, 0>>,
             <<65, 154>>, <<9>>}
Leads == {<<>>, <<0>>}
Closings == {<<>>} \cup StartCodes

RECURSIVE UnitSeqs(_)
UnitSeqs(k) ==
    IF k = 0 THEN {<<>>}
    ELSE LET shorter == UnitSeqs(k - 1) IN
         shorter \cup {u \o sc \o p : u \in shorter, sc \in StartCodes, p \in Payloads}
Streams == {l \o u \o c : l \in Leads, u \in UnitSeqs(MaxUnits), c \in Closings}

\* The calls of Discard and BufferToReader a caller makes itself, and their sizes.
MaxClientCalls == 1
ClientAmounts == {1, 2, 6}

NalIdle ==
    /\ stream = <<>>
    /\ hr = NewH264Reader
    /\ ret = "none"
    /\ disp = [type |-> -1, had |-> FALSE]

BitsIdle ==
    /\ src = <<>>
    /\ partial = FALSE
    /\ br = NewBufioBitReader
    /\ cb = NewCacheBitReader
    /\ log = <<>>

UeIdle == ur = 0
CursorIdle == cur = CursorOver(<<>>)
AuxIdle == UeIdle /\ CursorIdle

InitNal ==
    /\ stream \in Streams
    /\ hr = NewH264Reader
    /\ ret = "none"
    /\ disp = [type |-> -1, had |-> FALSE]
    /\ fault = "none"
    /\ BitsIdle
    /\ AuxIdle

\* One call of readNalUnit by a caller that keeps asking for NAL units.
ReadNalUnit ==
    /\ fault = "none"
    /\ LET res == readNalUnit(stream, hr) IN
       /\ hr' = res.h
       /\ ret' = IF res.ret = "panic" THEN "none" ELSE res.ret
       /\ fault' = IF res.ret = "panic" THEN "slice bounds out of range" ELSE "none"
    /\ UNCHANGED <<stream, disp, bitVars, auxVars>>

\* A caller's own call of the exported Discard, between calls of readNalUnit.
DiscardCall ==
    /\ fault = "none"
    /\ hr.client < MaxClientCalls
    /\ \E cntBytes \in ClientAmounts :
          LET d == Discard(stream, hr, cntBytes) IN
          hr' = [d.h EXCEPT !.client = hr.client + 1, !.err = d.err]
    /\ UNCHANGED <<stream, ret, disp, fault, bitVars, auxVars>>

\* A caller's own call of the exported BufferToReader.
BufferToReaderCall ==
    /\ fault = "none"
    /\ hr.client < MaxClientCalls
    /\ \E cntBytes \in ClientAmounts :
          LET b == BufferToReader(stream, hr, cntBytes) IN
          hr' = [b.h EXCEPT !.client = hr.client + 1, !.err = b.err]
    /\ UNCHANGED <<stream, ret, disp, fault, bitVars, auxVars>>

NextNal == ReadNalUnit \/ DiscardCall \/ BufferToReaderCall

SpecNal == InitNal /\ [][NextNal]_vars

----------------------------------------------------------------------------
ParsedTypes ==
    {NALU_TYPE_SPS, NALU_TYPE_PPS, NALU_TYPE_SLICE_IDR_PICTURE,
     NALU_TYPE_SLICE_NON_IDR_PICTURE}

\* Dispatch as it would be if Start put a new slice in front of the stored ones.
DispatchNewestFirst(h, type, idx, ok) ==
    LET vs == h.VideoStreams
        parsed == IF ok THEN idx ELSE 0
        hk == [h EXCEPT !.oks = Append(h.oks, ok \/ type \notin ParsedTypes)]
    IN
    IF type = NALU_TYPE_SPS
    THEN [h |-> [hk EXCEPT !.VideoStreams =
                     Append(vs, [SPS |-> parsed, PPS |-> 0, Slices |-> <<>>])],
          fault |-> "none"]
    ELSE IF type = NALU_TYPE_PPS
    THEN IF Len(vs) = 0
         THEN [h |-> h, fault |-> "index out of range"]
         ELSE [h |-> [hk EXCEPT !.VideoStreams[Len(vs)].PPS = parsed], fault |-> "none"]
    ELSE IF type \in {NALU_TYPE_SLICE_IDR_PICTURE, NALU_TYPE_SLICE_NON_IDR_PICTURE}
    THEN IF Len(vs) = 0
         THEN [h |-> h, fault |-> "index out of range"]
         ELSE [h |-> [hk EXCEPT !.VideoStreams[Len(vs)].Slices =
                          <<[nal |-> parsed, at |-> idx,
                             sps |-> vs[Len(vs)].SPS,
                             pps |-> vs[Len(vs)].PPS]>> \o vs[Len(vs)].Slices],
               fault |-> "none"]
    ELSE [h |-> hk, fault |-> "none"]

\* The body of the switch of Start for a NAL unit, the idx-th one read.  ok tells
\* whether NewSPS, NewPPS or NewSliceContext parses it; a failed parse yields nil,
\* written 0, and Start ignores the error.  A stored slice records the number
\* of its NAL unit (at) and the SPS and PPS of the VideoStream handed to
\* NewSliceContext.
Dispatch(h, type, idx, ok) ==
    LET vs == h.VideoStreams
        parsed == IF ok THEN idx ELSE 0
        hk == [h EXCEPT !.oks = Append(h.oks, ok \/ type \notin ParsedTypes)]
    IN
    IF type = NALU_TYPE_SPS
    THEN [h |-> [hk EXCEPT !.VideoStreams =
                     Append(vs, [SPS |-> parsed, PPS |-> 0, Slices |-> <<>>])],
          fault |-> "none"]
    ELSE IF type = NALU_TYPE_PPS
    THEN IF Len(vs) = 0
         THEN [h |-> h, fault |-> "index out of range"]
         ELSE [h |-> [hk EXCEPT !.VideoStreams[Len(vs)].PPS = parsed], fault |-> "none"]
    ELSE IF type \in {NALU_TYPE_SLICE_IDR_PICTURE, NALU_TYPE_SLICE_NON_IDR_PICTURE}
    THEN IF Len(vs) = 0
         THEN [h |-> h, fault |-> "index out of range"]
         ELSE [h |-> [hk EXCEPT !.VideoStreams[Len(vs)].Slices =
                          Append(vs[Len(vs)].Slices,
                                 [nal |-> parsed, at |-> idx,
                                  sps |-> vs[Len(vs)].SPS,
                                  pps |-> vs[Len(vs)].PPS])],
               fault |-> "none"]
    ELSE [h |-> hk, fault |-> "none"]

\* Start is also run on longer streams: MaxStartUnits NAL units behind four-byte
\* start codes, closed by a start code so that the last one is delivered.
MaxStartUnits == 4

RECURSIVE FramedSeqs(_)
FramedSeqs(k) ==
    IF k = 0 THEN {<<>>}
    ELSE {u \o InitialNALU \o p : u \in FramedSeqs(k - 1), p \in Payloads}
LongStreams == {u \o InitialNALU : u \in FramedSeqs(MaxStartUnits)}

InitStart ==
    /\ stream \in Streams \cup LongStreams
    /\ hr = NewH264Reader
    /\ ret = "none"
    /\ disp = [type |-> -1, had |-> FALSE]
    /\ fault = "none"
    /\ BitsIdle
    /\ AuxIdle

\* One round of the loop of Start: readNalUnit, then the switch on nalUnit.Type.
\* nalUnit.Type of a nil NAL unit is a nil pointer dereference.
StartIteration ==
    /\ fault = "none"
    /\ LET res == readNalUnit(stream, hr) IN
       IF res.ret = "panic"
       THEN /\ hr' = res.h
            /\ fault' = "slice bounds out of range"
            /\ UNCHANGED <<ret, disp>>
       ELSE IF res.ret = "nil"
       THEN /\ hr' = res.h
            /\ ret' = "nil"
            /\ fault' = "nil pointer dereference"
            /\ UNCHANGED disp
       ELSE \E ok \in BOOLEAN :
               LET idx == Len(res.h.NalUnits)
                   type == NalUnitType(res.h.NalUnits[idx])
                   d == Dispatch(res.h, type, idx, ok)
               IN /\ hr' = d.h
                  /\ ret' = "unit"
                  /\ fault' = d.fault
                  /\ disp' = [type |-> type, had |-> Len(hr.VideoStreams) > 0]
    /\ UNCHANGED <<stream, bitVars, auxVars>>

\* Start has not run its first round: what a caller does to the reader before
\* it calls Start.
StartNotBegun == ret = "none" /\ fault = "none"

NextStart ==
    \/ StartIteration
    \/ (StartNotBegun /\ DiscardCall)
    \/ (StartNotBegun /\ BufferToReaderCall)

SpecStart == InitStart /\ [][NextStart]_vars

----------------------------------------------------------------------------
(* The two readers as state machines: a source is chosen, then ReadBits    *)
(* and PeekBits are called on a fresh reader.  log records every call:     *)
(* its width, its results, the reader before and after it, and the number  *)
(* of unread bits (buffered bits plus bytes left in the source) before it. *)

BufioUnread(B, b) == b.bits + 8 * (Len(B) - b.r)
CacheUnread(B, b) ==
    (IF CacheLen(b) < 0 THEN 0 ELSE CacheLen(b)) + 8 * (Len(B) - b.r)

Call(op, n, res, pre, post, unread) ==
    [op |-> op, n |-> n, val |-> res.val, err |-> res.err,
     pre |-> pre, post |-> post, unread |-> unread]

InitBufio ==
    /\ src \in Sources
    /\ partial = FALSE
    /\ br = NewBufioBitReader
    /\ cb = NewCacheBitReader
    /\ log = <<>>
    /\ fault = "none"
    /\ NalIdle
    /\ AuxIdle

BufioRead(n) ==
    /\ Len(log) < MaxCalls
    /\ LET res == BufioReadBits(src, br, n) IN
       /\ br' = res.br
       /\ log' = Append(log, Call("read", n, res, br, res.br, BufioUnread(src, br)))
    /\ UNCHANGED <<src, partial, cb, fault, nalVars, auxVars>>

BufioPeek(n) ==
    /\ Len(log) < MaxCalls
    /\ LET res == BufioPeekBits(src, br, n) IN
       /\ br' = res.br
       /\ log' = Append(log, Call("peek", n, res, br, res.br, BufioUnread(src, br)))
    /\ UNCHANGED <<src, partial, cb, fault, nalVars, auxVars>>

NextBufio ==
    \/ \E n \in Widths : BufioRead(n)
    \/ \E n \in Widths : BufioPeek(n)

SpecBufio == InitBufio /\ [][NextBufio]_vars

InitCache ==
    /\ src \in Sources
    /\ partial \in BOOLEAN
    /\ br = NewBufioBitReader
    /\ cb = NewCacheBitReader
    /\ log = <<>>
    /\ fault = "none"
    /\ NalIdle
    /\ AuxIdle

\* A panic ends the program: no call follows it.
CacheCall(op, n) ==
    /\ Len(log) < MaxCalls
    /\ fault = "none"
    /\ \E got \in Deliveries(src, cb.r, NeedBytes(cb, n), partial) :
          LET res == readBits(src, cb, n, got, op = "read") IN
          /\ cb' = res.cb
          /\ log' = Append(log, Call(op, n, res, cb, res.cb, CacheUnread(src, cb)))
          /\ fault' = IF res.err = "panic" THEN "index out of range" ELSE "none"
    /\ UNCHANGED <<src, partial, br, nalVars, auxVars>>

CacheRead(n) == CacheCall("read", n)
CachePeek(n) == CacheCall("peek", n)

NextCache ==
    \/ \E n \in Widths : CacheRead(n)
    \/ \E n \in Widths : CachePeek(n)

SpecCache == InitCache /\ [][NextCache]_vars

----------------------------------------------------------------------------
(* readUe as a state machine: a source made of ue(v) codes is chosen, then *)
(* readUe is called again and again on one bitio.Reader.                   *)

\* longest zero prefix of a well-formed code in the inputs
MaxPrefix == 16
\* prefixes up to this length come with every suffix, longer ones with four
FullSuffix == 3
\* longest zero prefix of an over-long code in the inputs
MaxZeros == 34
\* longest zero prefix of a code whose prefix length does not fit a byte
MaxWideZeros == 257
\* most readUe calls made on one reader
MaxUeCalls == 3

\* the code of k zero bits, a 1 bit and the k bits of s
UeCode(k, s) ==
    [i \in 1..(2 * k + 1) |->
        IF i <= k THEN 0 ELSE IF i = k + 1 THEN 1
        ELSE (s \div Pow2(2 * k + 1 - i)) % 2]
Suffixes(k) ==
    IF k <= FullSuffix THEN 0..(Pow2(k) - 1)
    ELSE {0, 1, Pow2(k) \div 3, Pow2(k) - 1}
UeCodes == UNION {{UeCode(k, s) : s \in Suffixes(k)} : k \in 0..MaxPrefix}
ShortCodes == {UeCode(0, 0), UeCode(1, 0), UeCode(1, 1)}
\* more than 32 zero bits, a 1 bit, and as many suffix bits, all f
LongCodes ==
    {[i \in 1..z |-> 0] \o <<1>> \o [i \in 1..z |-> f] :
        z \in 33..MaxZeros, f \in {0, 1}}

\* ByteValues or more zero bits, a 1 bit and one more bit: the source ends
\* inside the suffix
WideCodes ==
    {[i \in 1..z |-> 0] \o <<1, f>> : z \in ByteValues..MaxWideZeros, f \in {0, 1}}

\* bits packed into bytes, most significant bit first, the last byte filled
\* with pad bits
PackBit(bits, j, pad) == IF j <= Len(bits) THEN bits[j] ELSE pad
Pack(bits, pad) ==
    [i \in 1..((Len(bits) + 7) \div 8) |->
        128 * PackBit(bits, 8 * i - 7, pad) + 64 * PackBit(bits, 8 * i - 6, pad)
        + 32 * PackBit(bits, 8 * i - 5, pad) + 16 * PackBit(bits, 8 * i - 4, pad)
        + 8 * PackBit(bits, 8 * i - 3, pad) + 4 * PackBit(bits, 8 * i - 2, pad)
        + 2 * PackBit(bits, 8 * i - 1, pad) + PackBit(bits, 8 * i, pad)]

UeBitStrings ==
    {a \o b : a \in UeCodes, b \in UeCodes}
    \cup {a \o b \o c : a \in ShortCodes, b \in ShortCodes, c \in ShortCodes}
    \cup {a \o b : a \in ShortCodes, b \in LongCodes}
    \cup WideCodes
\* sources that end inside a code: a short code and a code, less the last byte
CutSources ==
    {SubSeq(Pack(a \o b, 0), 1, Len(Pack(a \o b, 0)) - 1) :
        a \in ShortCodes, b \in UeCodes}
UeSources == {Pack(bits, pad) : bits \in UeBitStrings, pad \in {0, 1}} \cup CutSources

InitUe ==
    /\ src \in UeSources
    /\ ur = 0
    /\ log = <<>>
    /\ partial = FALSE
    /\ br = NewBufioBitReader
    /\ cb = NewCacheBitReader
    /\ fault = "none"
    /\ NalIdle
    /\ CursorIdle

\* One call of readUe by a caller that stops at the first error.
ReadUe ==
    /\ Len(log) < MaxUeCalls
    /\ \A i \in 1..Len(log) : log[i].err = "nil"
    /\ LET res == readUe(src, ur) IN
       \E val \in (IF res.over THEN OutOfRangeUint ELSE {res.val}) :
          /\ ur' = res.pos
          /\ log' = Append(log, [op |-> "readUe", val |-> val, err |-> res.err,
                                 pre |-> ur, post |-> res.pos])
    /\ UNCHANGED <<src, partial, br, cb, fault, nalVars, cur>>

NextUe == ReadUe

SpecUe == InitUe /\ [][NextUe]_vars

----------------------------------------------------------------------------
(* The cursor-based BitReader as a state machine: a reader over a buffer   *)
(* is chosen, then its methods are called.  log records every call that    *)
(* returned: its argument, its results and the cursor before and after it. *)

\* most calls made on one reader
MaxCursorCalls == 3
\* most rounds of the loop of MoreRBSPData that are followed
MaxRounds == 20

Buffers == {<<>>, <<128>>, <<0, 1>>, <<0, 0>>}
BitAmounts == {0, 1, 3, 9, 16}
ByteAmounts == {0, 1, 2}

CursorPos(b) ==
    [bitsRead |-> b.bitsRead, byteOffset |-> b.byteOffset, bitOffset |-> b.bitOffset]

InitCursor ==
    /\ cur \in {CursorOver(B) : B \in Buffers}
    /\ fault = "none"
    /\ BitsIdle
    /\ NalIdle
    /\ UeIdle

\* The run-time panic of a call: PeekBytes slices b.bytes, ReadByte (and ReadBytes
\* through it) indexes it.
PanicOf(op) ==
    IF op = "PeekBytes" THEN "slice bounds out of range" ELSE "index out of range"

\* A call that returns at once; a run-time panic ends the program.
CursorCall(op, n, res) ==
    /\ fault = "none"
    /\ cur.pc = "idle"
    /\ Len(log) < MaxCursorCalls
    /\ cur' = res.b
    /\ log' = Append(log, [op |-> op, n |-> n, val |-> res.val, err |-> res.err,
                           pre |-> CursorPos(cur), post |-> CursorPos(res.b)])
    /\ fault' = IF res.err = "panic" THEN PanicOf(op) ELSE "none"
    /\ UNCHANGED <<src, partial, br, cb, nalVars, ur>>

FastforwardCall(n) == CursorCall("Fastforward", n, Fastforward(cur, n))
RewindBitsCall(n) == CursorCall("RewindBits", n, RewindBits(cur, n))
RewindBytesCall(n) == CursorCall("RewindBytes", n, RewindBytes(cur, n))
ReadByteCall == CursorCall("ReadByte", 1, ReadByte(cur))
ReadBytesCall(n) == CursorCall("ReadBytes", n, ReadBytes(cur, n))
PeekBytesCall(n) == CursorCall("PeekBytes", n, PeekBytes(cur, n))
HasMoreDataCall == CursorCall("HasMoreData", 0, HasMoreData(cur))
IsByteAlignedCall == CursorCall("IsByteAligned", 0, IsByteAligned(cur))

\* MoreRBSPData up to its loop: false at once when no byte is left, otherwise
\* buf := make([]int, 1), cnt := 0 and the loop is entered.
MoreRBSPDataCall ==
    IF Len(cur.bytes) - cur.byteOffset = 0
    THEN CursorCall("MoreRBSPData", 0, [b |-> cur, val |-> FALSE, err |-> "nil"])
    ELSE /\ fault = "none"
         /\ cur.pc = "idle"
         /\ Len(log) < MaxCursorCalls
         /\ cur' = [cur EXCEPT !.pc = "loop", !.buf = 0, !.cnt = 0]
         /\ UNCHANGED <<src, partial, br, cb, log, fault, nalVars, ur>>

\* One test of the loop condition buf[0] != 1 of MoreRBSPData, and the round or
\* the return that follows.
MoreRBSPDataRound ==
    /\ cur.pc = "loop"
    /\ IF cur.buf = 1
       THEN /\ cur' = [cur EXCEPT !.pc = "idle"]
            /\ log' = Append(log, [op |-> "MoreRBSPData", n |-> 0, val |-> cur.cnt > 0,
                                   err |-> "nil", pre |-> CursorPos(cur),
                                   post |-> CursorPos(cur)])
       ELSE /\ cur.cnt < MaxRounds
            /\ LET r == Read(cur) IN
               IF r.err # "nil"
               THEN /\ cur' = [r.b EXCEPT !.pc = "idle"]
                    /\ log' = Append(log, [op |-> "MoreRBSPData", n |-> 0, val |-> FALSE,
                                           err |-> "nil", pre |-> CursorPos(cur),
                                           post |-> CursorPos(r.b)])
               ELSE /\ cur' = [r.b EXCEPT !.cnt = cur.cnt + 1]
                    /\ UNCHANGED log
    /\ UNCHANGED <<src, partial, br, cb, fault, nalVars, ur>>

NextCursor ==
    \/ \E n \in BitAmounts : FastforwardCall(n)
    \/ \E n \in BitAmounts : RewindBitsCall(n)
    \/ \E n \in ByteAmounts : RewindBytesCall(n)
    \/ ReadByteCall
    \/ \E n \in ByteAmounts : ReadBytesCall(n)
    \/ \E n \in ByteAmounts : PeekBytesCall(n)
    \/ HasMoreDataCall
    \/ IsByteAlignedCall
    \/ MoreRBSPDataCall
    \/ MoreRBSPDataRound

SpecCursor == InitCursor /\ [][NextCursor]_vars

----------------------------------------------------------------------------
(* rangeTabLPS and retCodIRangeLPS of package h264. *)

rangeTabLPSColumns == 4
rangeTabLPSRows == 64

rangeTabLPS ==
    << <<128, 176, 208, 240>>, <<128, 167, 197, 227>>, <<128, 158, 187, 216>>,
       <<123, 150, 178, 205>>, <<116, 142, 169, 195>>, <<111, 135, 160, 185>>,
       <<105, 128, 152, 175>>, <<100, 122, 144, 166>>, <<95, 116, 137, 158>>,
       <<90, 110, 130, 150>>, <<85, 104, 123, 142>>, <<81, 99, 117, 135>>,
       <<77, 94, 111, 128>>, <<73, 89, 105, 122>>, <<69, 85, 100, 116>>,
       <<66, 80, 95, 110>>, <<62, 76, 90, 104>>, <<59, 72, 86, 99>>,
       <<56, 69, 81, 94>>, <<53, 65, 77, 89>>, <<51, 62, 73, 85>>,
       <<48, 59, 69, 80>>, <<46, 56, 66, 76>>, <<43, 53, 63, 72>>,
       <<41, 50, 59, 69>>, <<39, 48, 56, 65>>, <<37, 45, 54, 62>>,
       <<35, 43, 51, 59>>, <<33, 41, 48, 56>>, <<32, 39, 46, 53>>,
       <<30, 37, 43, 50>>, <<29, 35, 41, 48>>, <<27, 33, 39, 45>>,
       <<26, 61, 67, 43>>, <<24, 30, 35, 41>>, <<23, 28, 33, 39>>,
       <<22, 27, 32, 37>>, <<21, 26, 30, 35>>, <<20, 24, 29, 33>>,
       <<19, 23, 27, 31>>, <<18, 22, 26, 30>>, <<17, 21, 25, 28>>,
       <<16, 20, 23, 27>>, <<15, 19, 22, 25>>, <<14, 18, 21, 24>>,
       <<14, 17, 20, 23>>, <<13, 16, 19, 22>>, <<12, 15, 18, 21>>,
       <<12, 14, 17, 20>>, <<11, 14, 16, 19>>, <<11, 13, 15, 18>>,
       <<10, 12, 15, 17>>, <<10, 12, 14, 16>>, <<9, 11, 13, 15>>,
       <<9, 11, 12, 14>>, <<8, 10, 12, 14>>, <<8, 9, 11, 13>>,
       <<7, 9, 11, 12>>, <<7, 9, 10, 12>>, <<7, 8, 10, 11>>,
       <<6, 8, 9, 11>>, <<6, 7, 9, 10>>, <<6, 7, 8, 9>>,
       <<2, 2, 2, 2>> >>

\* rangeTabLPS[p][q] as Go indexes it, from 0; an index outside the array is a
\* run-time panic
TabEntry(p, q) ==
    IF p \in 0..(Len(rangeTabLPS) - 1) /\ q \in 0..(Len(rangeTabLPS[p + 1]) - 1)
    THEN [val |-> rangeTabLPS[p + 1][q + 1], err |-> "nil"]
    ELSE [val |-> 0, err |-> "panic"]

\* retCodIRangeLPS as it would be with the row check written pStateIdx > rows
retCodIRangeLPSOffByOne(pStateIdx, qCodIRangeIdx) ==
    IF 0 > pStateIdx \/ pStateIdx > rangeTabLPSRows
    THEN [val |-> 0, err |-> "invalid pStateIdx"]
    ELSE IF 0 > qCodIRangeIdx \/ qCodIRangeIdx >= rangeTabLPSColumns
    THEN [val |-> 0, err |-> "invalid qCodIRangeIdx"]
    ELSE TabEntry(pStateIdx, qCodIRangeIdx)

retCodIRangeLPS(pStateIdx, qCodIRangeIdx) ==
    IF 0 > pStateIdx \/ pStateIdx >= rangeTabLPSRows
    THEN [val |-> 0, err |-> "invalid pStateIdx"]
    ELSE IF 0 > qCodIRangeIdx \/ qCodIRangeIdx >= rangeTabLPSColumns
    THEN [val |-> 0, err |-> "invalid qCodIRangeIdx"]
    ELSE TabEntry(pStateIdx, qCodIRangeIdx)

\* how far outside the table the arguments of the calls go
LPSMargin == 3
\* most retCodIRangeLPS calls made in one run
MaxLPSCalls == 1

InitLPS ==
    /\ fault = "none"
    /\ BitsIdle
    /\ NalIdle
    /\ AuxIdle

\* One call of retCodIRangeLPS.
RetCodIRangeLPS(p, q) ==
    /\ Len(log) < MaxLPSCalls
    /\ fault = "none"
    /\ LET res == retCodIRangeLPS(p, q) IN
       /\ log' = Append(log, [op |-> "retCodIRangeLPS", p |-> p, q |-> q,
                              val |-> res.val, err |-> res.err])
       /\ fault' = IF res.err = "panic" THEN "index out of range" ELSE "none"
    /\ UNCHANGED <<src, partial, br, cb, nalVars, auxVars>>

NextLPS ==
    \E p \in (-LPSMargin)..(rangeTabLPSRows - 1 + LPSMargin),
       q \in (-LPSMargin)..(rangeTabLPSColumns - 1 + LPSMargin) :
        RetCodIRangeLPS(p, q)

SpecLPS == InitLPS /\ [][NextLPS]_vars

----------------------------------------------------------------------------
(* The two readers side by side: both are built over the same source, one  *)
(* that never delivers short, and receive the same calls.                  *)

InitPair ==
    /\ src \in Sources
    /\ partial = FALSE
    /\ br = NewBufioBitReader
    /\ cb = NewCacheBitReader
    /\ log = <<>>
    /\ fault = "none"
    /\ NalIdle
    /\ AuxIdle

\* The same call on both readers; a panic of the cache-backed one ends the run.
PairCall(op, n) ==
    /\ Len(log) < MaxCalls
    /\ fault = "none"
    /\ \E got \in Deliveries(src, cb.r, NeedBytes(cb, n), partial) :
          LET rb == IF op = "read" THEN BufioReadBits(src, br, n)
                    ELSE BufioPeekBits(src, br, n)
              rc == readBits(src, cb, n, got, op = "read")
          IN /\ br' = rb.br
             /\ cb' = rc.cb
             /\ log' = Append(log, [op |-> op, n |-> n,
                                    bval |-> rb.val, berr |-> rb.err,
                                    cval |-> rc.val, cerr |-> rc.err])
             /\ fault' = IF rc.err = "panic" THEN "index out of range" ELSE "none"
    /\ UNCHANGED <<src, partial, nalVars, auxVars>>

PairRead(n) == PairCall("read", n)
PairPeek(n) == PairCall("peek", n)

NextPair ==
    \/ \E n \in Widths : PairRead(n)
    \/ \E n \in Widths : PairPeek(n)

SpecPair == InitPair /\ [][NextPair]_vars

----------------------------------------------------------------------------
(* Properties of the bit readers. *)

\* the widths of the first k calls of a log
RECURSIVE SumWidths(_, _)
SumWidths(l, k) == IF k = 0 THEN 0 ELSE SumWidths(l, k - 1) + l[k].n

\* no call of the log asks for more than 16 bits: the 64-bit accumulator of the
\* bufio-backed reader then never holds more than 7 + 16 + 7 bits
NarrowCalls == \A j \in 1..Len(log) : log[j].n <= 16

IsEOF(e) == e \in {"EOF", "ErrUnexpectedEOF"}

\* C1: successive ReadBits calls on a fresh bufio-backed reader whose widths sum to
\* at most 8*|B| all succeed and return the consecutive MSB-first fields of B, also
\* when a read of up to 64 bits starts in the middle of a byte.
C1_ReadBitsCutsFields ==
    ((\A k \in 1..Len(log) : log[k].op = "read")
        /\ SumWidths(log, Len(log)) <= 8 * Len(src))
    => \A k \in 1..Len(log) :
          /\ log[k].err = "nil"
          /\ log[k].val = Field(src, SumWidths(log, k - 1), log[k].n)

\* C2: at a cursor position reached by successful ReadBits calls, PeekBits(n)
\* immediately followed by ReadBits(n) returns the same value from both calls, and
\* the cursor (bytes taken, bits buffered) is the one a lone ReadBits(n) from that
\* position leaves.  Stated for calls of at most 16 bits, which cannot overflow the
\* accumulator.
C2_PeekThenReadAgree ==
    NarrowCalls =>
    \A k \in 1..(Len(log) - 1) :
        (/\ log[k].op = "peek" /\ log[k + 1].op = "read" /\ log[k + 1].n = log[k].n
         /\ \A j \in 1..(k - 1) : log[j].op = "read" /\ log[j].err = "nil")
        => /\ log[k + 1].val = log[k].val
           /\ log[k + 1].err = log[k].err
           /\ LET lone == BufioReadBits(src, log[k].pre, log[k].n) IN
                 /\ log[k + 1].post.r = lone.br.r
                 /\ log[k + 1].post.bits = lone.br.bits

\* C3: in any interleaving of ReadBits and PeekBits, every call for which enough bits
\* remain returns the n bits that start where the preceding successful ReadBits calls
\* ended, whatever PeekBits calls were made in between.  Stated for calls of at most
\* 16 bits, which cannot overflow the accumulator.
C3_PeekDoesNotAdvance ==
    NarrowCalls =>
    \A k \in 1..Len(log) :
        CursorBefore(log, k) + log[k].n <= 8 * Len(src)
        => /\ log[k].err = "nil"
           /\ log[k].val = Field(src, CursorBefore(log, k), log[k].n)

\* C4: a ReadBits or PeekBits call that returns, returns value 0 with an end-of-file
\* error when fewer than n unread bits remain (buffered bits plus bytes left in the
\* source), and no error when at least n unread bits remain.
C4_EOFIffTooFewBits ==
    fault = "none" =>
    \A k \in 1..Len(log) :
        IF log[k].unread < log[k].n
        THEN IsEOF(log[k].err) /\ log[k].val = Zero64
        ELSE log[k].err = "nil"

\* C5: ReadBits(0) returns 0 with no error and leaves the reader as it was, in every
\* reachable state, a fresh reader and a reader on a byte boundary included.
C5_ZeroWidthRead ==
    \A k \in 1..Len(log) :
        (log[k].op = "read" /\ log[k].n = 0)
        => /\ log[k].err = "nil"
           /\ log[k].val = Zero64
           /\ log[k].post = log[k].pre

\* C6: when every call found enough unread bits (so the source never had to report
\* EOF), the cache of the cache-backed reader holds only bytes the source supplied,
\* in source order: it is the last len(c) bytes delivered, also when the source
\* delivers fewer bytes than one Read asked for.
C6_CacheHoldsSourceBytes ==
    (\A k \in 1..Len(log) : log[k].unread >= log[k].n)
    => /\ Len(cb.c) <= cb.r
       /\ \A i \in 1..Len(cb.c) : cb.c[i] = src[cb.r - Len(cb.c) + i]

----------------------------------------------------------------------------
(* Properties of the NAL reader. *)

\* a three-byte start code 00 00 01 begins at byte i of s
IsStartCodeAt(s, i) == i + 2 <= Len(s) /\ s[i] = 0 /\ s[i + 1] = 0 /\ s[i + 2] = 1
\* every start code of s is of the four-byte form 00 00 00 01
OnlyFourByteCodes(s) == \A i \in 1..Len(s) : IsStartCodeAt(s, i) => (i > 1 /\ s[i - 1] = 0)

\* the end of the first four-byte start code of s that begins after byte e, or 0
NextCodeEnd(s, e) ==
    LET ends == {i \in (e + 4)..Len(s) : \A j \in 1..4 : s[i - 4 + j] = InitialNALU[j]} IN
    IF ends = {} THEN 0 ELSE CHOOSE i \in ends : \A k \in ends : i <= k

\* the payloads of s: from the byte after a start code up to, but not including, the
\* next start code, or end-of-stream
RECURSIVE PayloadsFrom(_, _)
PayloadsFrom(s, e) ==
    IF e = 0 THEN <<>>
    ELSE LET nxt == NextCodeEnd(s, e)
         IN <<SubSeq(s, e + 1, IF nxt = 0 THEN Len(s) ELSE nxt - 4)>> \o PayloadsFrom(s, nxt)
PayloadsOf(s) == PayloadsFrom(s, NextCodeEnd(s, 0))

IsPrefix(a, b) == Len(a) <= Len(b) /\ \A i \in 1..Len(a) : a[i] = b[i]

\* The caller has taken no byte from Stream itself: every byte read so far was
\* read by readNalUnit.
OnlyReadNalUnit == hr.client = 0

\* C7: in an input delimited by four-byte start codes, the bytes of every NAL unit
\* readNalUnit returns (those handed to NewNalUnit and kept in NalUnits) are the
\* bytes from after its start code up to, but not including, the next start code,
\* when readNalUnit alone reads the input.
C7_UnitExcludesNextStartCode ==
    (OnlyReadNalUnit /\ OnlyFourByteCodes(stream)) =>
    \A j \in 1..Len(hr.NalUnits) :
        j <= Len(PayloadsOf(stream)) /\ hr.NalUnits[j] = PayloadsOf(stream)[j]

\* C8: every start code among the bytes read so far, the three-byte form not preceded
\* by 00 included, is taken as a NAL boundary: it ends where readNalUnit started a
\* NAL unit, or it is the boundary just reached at the end of the bytes read,
\* when readNalUnit alone reads the input.
C8_ThreeByteStartCode ==
    OnlyReadNalUnit =>
    \A i \in 1..Len(hr.bytes) :
        IsStartCodeAt(hr.bytes, i) => (i + 2 \in hr.starts \/ i + 2 = Len(hr.bytes))

\* C9: once readNalUnit has met the end of an input of k four-byte start codes, each
\* followed by at least one payload byte, it has returned k NAL units, and the last
\* one holds the whole last payload, when readNalUnit alone reads the input.
C9_LastUnitDelivered ==
    (/\ ret = "nil" /\ fault = "none"
     /\ OnlyReadNalUnit
     /\ OnlyFourByteCodes(stream)
     /\ \A j \in 1..Len(PayloadsOf(stream)) : Len(PayloadsOf(stream)[j]) >= 1)
    => /\ Len(hr.NalUnits) = Len(PayloadsOf(stream))
       /\ Len(hr.NalUnits) > 0 =>
             IsPrefix(PayloadsOf(stream)[Len(hr.NalUnits)], hr.NalUnits[Len(hr.NalUnits)])

\* C10: a slice (type 1 or 5) or a PPS (type 8) dispatched by Start while no SPS has
\* been received is dropped: no fault, and VideoStreams stays empty.
C10_DropBeforeFirstSPS ==
    (/\ disp.type \in {NALU_TYPE_SLICE_NON_IDR_PICTURE, NALU_TYPE_SLICE_IDR_PICTURE,
                       NALU_TYPE_PPS}
     /\ ~disp.had)
    => fault = "none" /\ hr.VideoStreams = <<>>


----------------------------------------------------------------------------
(* Start: the VideoStreams it builds.                                      *)

\* The slices stored in the VideoStreams of h.
StoredSlices(h) ==
    UNION {{h.VideoStreams[v].Slices[i] : i \in 1..Len(h.VideoStreams[v].Slices)} :
              v \in 1..Len(h.VideoStreams)}

\* The number of the last NAL unit of the given type before the i-th one whose
\* parser returned without error; 0 when there is none.
LastParsed(h, i, type) ==
    LET js == {j \in 1..(i - 1) : NalUnitType(h.NalUnits[j]) = type /\ h.oks[j]}
    IN IF js = {} THEN 0 ELSE CHOOSE j \in js : \A k \in js : k <= j

\* C11: every stored slice was appended while its VideoStream held a parsed SPS
\* and a parsed PPS.
C11_SlicesHaveParameterSets ==
    \A s \in StoredSlices(hr) : s.sps # 0 /\ s.pps # 0

\* C12: the PPS handed to NewSliceContext for a slice is the last PPS parsed
\* before the slice arrived, and the SPS is the one that PPS was parsed against
\* (the last SPS parsed before that PPS), also when an SPS arrived in between.
C12_SliceUsesCurrentPPS ==
    \A s \in StoredSlices(hr) :
        LET j == LastParsed(hr, s.at, NALU_TYPE_PPS) IN
        j # 0 => /\ s.pps = j
                 /\ s.sps = LastParsed(hr, j, NALU_TYPE_SPS)

\* C13: a NAL unit whose parser reports an error changes no VideoStream: none is
\* appended, and no stored SPS, PPS or slice list changes.
C13_FailedParseDropsUnit ==
    [][(/\ Len(hr'.oks) = Len(hr.oks) + 1
        /\ ~hr'.oks[Len(hr'.oks)])
       => hr'.VideoStreams = hr.VideoStreams]_vars

\* C14: within each VideoStream the slices are stored in arrival order, and no
\* round of Start removes, reorders or replaces a stored slice.
C14_SlicesKeepArrivalOrder ==
    [][/\ Len(hr'.VideoStreams) >= Len(hr.VideoStreams)
       /\ \A v \in 1..Len(hr.VideoStreams) :
             IsPrefix(hr.VideoStreams[v].Slices, hr'.VideoStreams[v].Slices)
       /\ \A v \in 1..Len(hr'.VideoStreams) :
             LET sl == hr'.VideoStreams[v].Slices IN
             \A i \in 1..Len(sl), j \in 1..Len(sl) : i < j => sl[i].at < sl[j].at]_vars

\* C14 witness: a VideoStream holds two slices and a later NAL unit of another
\* type has been dispatched after them.
C14_Witness ==
    \E v \in 1..Len(hr.VideoStreams) :
        LET sl == hr.VideoStreams[v].Slices IN
        /\ Len(sl) >= 2
        /\ Len(hr.oks) > sl[Len(sl)].at
        /\ fault = "none"

----------------------------------------------------------------------------
(* Properties of readUe. *)

\* the number of 0 bits of B from bit position pos up to the next 1 bit or the end
RECURSIVE ZeroRun(_, _)
ZeroRun(B, pos) ==
    IF pos >= 8 * Len(B) \/ SrcBit(B, pos + 1) = 1 THEN 0 ELSE 1 + ZeroRun(B, pos + 1)

\* the number the n bits of B after the first pos spell, for n up to 30
RECURSIVE BitsValue(_, _, _)
BitsValue(B, pos, n) ==
    IF n = 0 THEN 0 ELSE 2 * BitsValue(B, pos, n - 1) + SrcBit(B, pos + n)

\* the code at bit position pos of B has k leading zeros and is whole
WholeCode(B, pos, k) == ZeroRun(B, pos) = k /\ pos + 2 * k + 1 <= 8 * Len(B)

\* C15: a code of k <= 16 zero bits, a 1 bit and k suffix bits spelling s decodes
\* to 2^k - 1 + s without error, and readUe consumes exactly its 2k+1 bits, so
\* the next call starts at the next code.
C15_ReadUeDecodes ==
    \A i \in 1..Len(log) :
        LET k == ZeroRun(src, log[i].pre) IN
        (/\ log[i].op = "readUe"
         /\ k <= MaxPrefix
         /\ WholeCode(src, log[i].pre, k))
        => /\ log[i].err = "nil"
           /\ log[i].val = FromInt(Pow2(k) - 1 + BitsValue(src, log[i].pre + k + 1, k))
           /\ log[i].post = log[i].pre + 2 * k + 1

\* C15 witness: a code with a prefix of 16 zero bits and a nonzero suffix was
\* decoded after a first code of more than one bit.
C15_Witness ==
    /\ Len(log) >= 2
    /\ log[1].op = "readUe" /\ log[2].op = "readUe"
    /\ log[1].err = "nil" /\ log[1].post > 1
    /\ WholeCode(src, log[2].pre, 16)
    /\ BitsValue(src, log[2].pre + 17, 16) > 0
    /\ log[2].err = "nil"

\* C16: a code with more than 32 zero bits before its first 1 bit makes readUe
\* return a SyntaxViolation error and no value.
C16_OverlongPrefixRejected ==
    \A i \in 1..Len(log) :
        (/\ log[i].op = "readUe"
         /\ ZeroRun(src, log[i].pre) > 32
         /\ log[i].pre + ZeroRun(src, log[i].pre) < 8 * Len(src))
        => log[i].err = "SyntaxViolation" /\ log[i].val = Zero64

----------------------------------------------------------------------------
(* Properties of the cursor-based BitReader. *)

\* a 1 bit lies between the cursor of b and the end of its bytes
OneBitRemains(b) ==
    \E j \in (8 * b.byteOffset + b.bitOffset + 1)..(8 * Len(b.bytes)) :
        j >= 1 /\ SrcBit(b.bytes, j) = 1

\* the bits between the cursor of b and the end of its bytes
BitsLeft(b) == 8 * Len(b.bytes) - (8 * b.byteOffset + b.bitOffset)

\* C17: MoreRBSPData returns true iff a 1 bit remains between the cursor and the
\* end of the buffered bytes: what it returns is that, and it returns after
\* looking at no more bits than remain there.
C17_MoreRBSPData ==
    /\ \A i \in 1..Len(log) :
          log[i].op = "MoreRBSPData" =>
              log[i].val = OneBitRemains([bytes |-> cur.bytes,
                                          byteOffset |-> log[i].pre.byteOffset,
                                          bitOffset |-> log[i].pre.bitOffset])
    /\ cur.pc = "loop" => cur.cnt <= BitsLeft(cur)

\* C18: Fastforward(n) followed by RewindBits(n) leaves bitsRead, byteOffset and
\* bitOffset as they were before the Fastforward.
C18_RewindRestoresCursor ==
    \A i \in 1..(Len(log) - 1) :
        (/\ log[i].op = "Fastforward"
         /\ log[i + 1].op = "RewindBits"
         /\ log[i + 1].n = log[i].n)
        => log[i + 1].err = "nil" /\ log[i + 1].post = log[i].pre

\* C19: bitOffset is in 0..7, byteOffset and bitsRead are never negative, and a
\* rewind that would pass the start of the buffer returns an error and leaves
\* the cursor as it was.
C19_CursorInRange ==
    /\ cur.bitOffset \in 0..7
    /\ cur.byteOffset >= 0
    /\ cur.bitsRead >= 0
    /\ \A i \in 1..Len(log) :
          (\/ log[i].op = "RewindBits"
              /\ 8 * log[i].pre.byteOffset + log[i].pre.bitOffset - log[i].n < 0
           \/ log[i].op = "RewindBytes" /\ log[i].pre.byteOffset - log[i].n < 0)
          => log[i].err # "nil" /\ log[i].post = log[i].pre

\* C20: no call other than RewindBits and RewindBytes moves byteOffset backwards.
C20_ByteOffsetMonotone ==
    \A i \in 1..Len(log) :
        log[i].op \in {"Fastforward", "ReadByte", "ReadBytes", "PeekBytes",
                       "HasMoreData", "IsByteAligned"}
        => log[i].post.byteOffset >= log[i].pre.byteOffset

\* the source ends inside the code at bit position pos of B: before the 1 bit
\* that ends its prefix, or before the last bit of its suffix
CodeCut(B, pos) ==
    LET k == ZeroRun(B, pos) IN
    pos + k >= 8 * Len(B) \/ pos + 2 * k + 1 > 8 * Len(B)

\* C21: every readUe call returns after reading no more bits than the source
\* has left, and when the source ends before the 1 bit of the prefix or before
\* all the suffix bits, readUe returns 0 and the error of the bit reader (io.EOF).
C21_ReadUeAtEndOfSource ==
    \A i \in 1..Len(log) :
        log[i].op = "readUe" =>
            /\ log[i].pre <= log[i].post /\ log[i].post <= 8 * Len(src)
            /\ CodeCut(src, log[i].pre)
                  => log[i].val = Zero64 /\ log[i].err = "EOF"

----------------------------------------------------------------------------
(* Properties of rangeTabLPS and retCodIRangeLPS. *)

\* C22: retCodIRangeLPS returns the table entry and no error iff 0 <= pStateIdx
\* < 64 and 0 <= qCodIRangeIdx < 4; otherwise it returns 0 and an error, and it
\* never indexes outside the table.
C22_RetCodIRangeLPSChecksBounds ==
    \A i \in 1..Len(log) :
        log[i].op = "retCodIRangeLPS" =>
            /\ log[i].err # "panic"
            /\ IF log[i].p \in 0..63 /\ log[i].q \in 0..3
               THEN log[i].err = "nil" /\ log[i].val = rangeTabLPS[log[i].p + 1][log[i].q + 1]
               ELSE log[i].err # "nil" /\ log[i].val = 0

\* C22 witness: a call with pStateIdx = 64, one past the last row, was refused.
C22_Witness ==
    \E i \in 1..Len(log) :
        /\ log[i].op = "retCodIRangeLPS"
        /\ log[i].p = 64 /\ log[i].q \in 0..3
        /\ log[i].err # "nil"

\* C27: down every column the entries never increase, and along every row they
\* never decrease: no entry retCodIRangeLPS returns is smaller than one further
\* down its column or larger than one further right in its row.
C27_RangeTabLPSMonotone ==
    \A i \in 1..Len(log) :
        (log[i].op = "retCodIRangeLPS" /\ log[i].err = "nil") =>
            /\ \A p2 \in log[i].p..(rangeTabLPSRows - 1) :
                  retCodIRangeLPS(p2, log[i].q).val <= log[i].val
            /\ \A q2 \in log[i].q..(rangeTabLPSColumns - 1) :
                  retCodIRangeLPS(log[i].p, q2).val >= log[i].val

----------------------------------------------------------------------------
(* Start at the end of the stream. *)

\* C23: when readNalUnit returns no NAL unit, Start does not fault: it does not
\* read the Type of the missing unit.
C23_StartEndsCleanly ==
    ret = "nil" => fault = "none"

\* C24: a MoreRBSPData call returns after finitely many rounds of its loop: a
\* loop that scans the bits of the buffer makes no more rounds than the buffer
\* has bits.
C24_MoreRBSPDataTerminates ==
    cur.pc = "loop" => cur.cnt <= 8 * Len(cur.bytes)

----------------------------------------------------------------------------
(* The bufio-backed reader after a failed call, and its accumulator. *)

\* C25: after a ReadBits or PeekBits call that failed for want of bits, every
\* later call for no more bits than are unread succeeds and returns the next
\* bits of the source.
C25_FailedReadLosesNoData ==
    \A i \in 1..Len(log) : \A j \in (i + 1)..Len(log) :
        (/\ log[i].err # "nil"
         /\ log[i].n > log[i].unread
         /\ log[j].n <= log[j].unread)
        => /\ log[j].err = "nil"
           /\ log[j].val = Field(src, 8 * Len(src) - log[j].unread, log[j].n)

\* the count of valid bits when the fill loop of a call ends: br.bits for
\* ReadBits, the local bits for a PeekBits that got its bytes
BitsAfterFill(B, b, op, n) ==
    IF op = "read" THEN BufioFill(B, b, n).br.bits
    ELSE IF BufioPeekBits(B, b, n).err = "nil" THEN PeekFill(B, b, b.bits, 0, n).bits
    ELSE b.bits

\* C28: the count of valid bits never exceeds 64 while a call fills br.n, and
\* br.bits is in 0..7 after every successful ReadBits.
C28_AccumulatorBound ==
    \A i \in 1..Len(log) :
        /\ BitsAfterFill(src, log[i].pre, log[i].op, log[i].n) <= WordBits
        /\ (log[i].op = "read" /\ log[i].err = "nil") => log[i].post.bits \in 0..7

\* C26: on the same source and the same calls the cache-backed and the
\* bufio-backed reader fail at the same calls and return the same values.
C26_ReadersEquivalent ==
    \A i \in 1..Len(log) :
        /\ (log[i].berr = "nil") <=> (log[i].cerr = "nil")
        /\ (log[i].berr = "nil" /\ log[i].cerr = "nil") => log[i].bval = log[i].cval

============================================================================
